---- MODULE Spec2Model ----
(***************************************************************************)
(* telly-spelly: the volume meter (volume_meter.py), the installer         *)
(* (install.py) and the global-shortcut keyboard listener (shortcuts.py).  *)
(***************************************************************************)
EXTENDS Integers, Sequences, FiniteSets, TLC

VARIABLES
    \* ---- VolumeMeter (volume_meter.py)
    value_buffer,   \* deque(maxlen=buffer_size) of raw samples
    last_value,     \* previous smoothed value
    value,          \* displayed value
    peaks,          \* list of (peak, frames) pairs
    samples,        \* history: every sample passed to set_value, in order
    feed            \* the sample values the audio source delivers

meterVars == <<value_buffer, last_value, value, peaks, samples, feed>>

VARIABLES
    \* ---- install_application (install.py)
    ipc,            \* position in install_application
    have_whisper,   \* "import whisper" succeeds in the system python
    have_torch,     \* "import torch" succeeds in the system python
    venv_ok,        \* python -m venv exits 0
    pip_ok,         \* pip can install what requirements.txt lists
    source_dir,     \* names of the files present in the source directory
    dirs,           \* directories created
    app_dir,        \* files copied into the application directory
    venv,           \* the virtual environment exists
    launcher,       \* "absent", "written" or "executable"
    installed,      \* desktop file / icon copied to their directories
    warnings,       \* files a "Warning: Could not find" line was printed for
    result          \* "none" until install_application returns, then "True"/"False"

installEnv == <<have_whisper, have_torch, venv_ok, pip_ok, source_dir>>
installVars == <<ipc, installEnv, dirs, app_dir, venv, launcher, installed,
                 warnings, result>>

VARIABLES
    \* ---- KeyboardListener / GlobalShortcuts (shortcuts.py)
    devices,        \* what opening the input devices does: "ok" or the failure
    held,           \* per keyboard, the key codes physically held down
    lpc,            \* per listener, the position of its thread in run()
    combo,          \* per listener, start_combo and stop_combo
    running,        \* per listener, _running
    pressed_keys,   \* per listener, _pressed_keys
    groups,         \* per listener, start_groups and stop_groups
    queue,          \* per listener and keyboard, the events not yet read
    ready,          \* per listener, the devices select() returned, still to read
    escaped,        \* per listener, an exception left run()
    emitted,        \* per listener, the names it has emitted (history)
    notified,       \* per listener and combo, emissions since the last release
                    \* of one of the combo's keys, counted up to 2 (history)
    faithful,       \* per listener, no key was down when it opened the devices
                    \* and no read has failed since (history)
    ui_queue,       \* queued key_combo_pressed deliveries to the UI thread
    triggered,      \* start/stop_recording_triggered signals emitted so far
    listener,       \* GlobalShortcuts._listener (0 is None)
    mpc,            \* position of the UI thread
    pending,        \* arguments of the setup_shortcuts call in progress
    stale           \* _on_combo ran for a listener already removed (history)

VARIABLES
    \* ---- a call of _combo_matches (shortcuts.py)
    m_groups,       \* the groups argument
    m_pressed,      \* the pressed_keys argument
    m_result,       \* "unset", or the value returned: "True" or "False"
    m_at            \* the pressed_keys the value was returned for

matchVars == <<m_groups, m_pressed, m_result, m_at>>

threadVars == <<lpc, running, pressed_keys, groups, queue, ready, escaped,
                emitted, notified, faithful>>
shortcutVars == <<devices, held, combo, threadVars, ui_queue, triggered,
                  listener, mpc, pending, stale>>

vars == <<meterVars, installVars, shortcutVars, matchVars>>

(***************************************************************************)
(* VolumeMeter.  Samples are counted in units of 0.0001, values of the     *)
(* 0..1 range in hundredths (One stands for 1.0).                          *)
(***************************************************************************)

\* Number of set_value calls explored.
MaxCalls == 16

\* The audio sources: silence or a loud sample (0.004); a negative sample
\* (-0.002) or a loud one; silence or a faint sample (0.0001).
Feeds == {{0, 40}, {-20, 40}, {0, 1}}

One == 100
buffer_size == 3
sensitivity == 20
smoothing == 5
PeakFrames == 15
PeakDecay == 95
PeakFloor == 1

\* float('nan'): every comparison with it is false, arithmetic keeps it.
NaN == -1000000

base_weights == <<2, 3, 5>>

Min(a, b) == IF a <= b THEN a ELSE b

\* a > b on floats
Gt(a, b) == a # NaN /\ b # NaN /\ a > b

\* variant: a full deque drops the new element instead of the oldest one
DequeAppendKeepOldest(buf, v) ==
    IF Len(buf) = buffer_size THEN buf ELSE Append(buf, v)

\* deque.append on a deque with maxlen: the oldest element falls out.
DequeAppend(buf, v) ==
    IF Len(buf) = buffer_size THEN Append(Tail(buf), v) ELSE Append(buf, v)

\* base_weights[-n:]
Weights(n) == SubSeq(base_weights, Len(base_weights) - n + 1, Len(base_weights))

RECURSIVE SeqSum(_)
SeqSum(s) == IF s = <<>> THEN 0 ELSE Head(s) + SeqSum(Tail(s))

RECURSIVE Dot(_, _)
Dot(w, b) == IF w = <<>> THEN 0 ELSE Head(w) * Head(b) + Dot(Tail(w), Tail(b))

\* min(1.0, np.average(buffer, weights=weights/weights.sum()) / sensitivity)
TargetValue(buf) ==
    LET w == Weights(Len(buf))
    IN  Min(One, (Dot(w, buf) * One) \div (SeqSum(w) * sensitivity))

\* smoothing * last_value + (1 - smoothing) * target_value
Smoothed(last, target) == (smoothing * last + (10 - smoothing) * target) \div 10

\* round(100 * (i/100) ** 0.9) for i = 0..100
PowTable ==
    << 0, 2, 3, 4, 6, 7, 8, 9, 10, 11,
       13, 14, 15, 16, 17, 18, 19, 20, 21, 22,
       23, 25, 26, 27, 28, 29, 30, 31, 32, 33,
       34, 35, 36, 37, 38, 39, 40, 41, 42, 43,
       44, 45, 46, 47, 48, 49, 50, 51, 52, 53,
       54, 55, 56, 56, 57, 58, 59, 60, 61, 62,
       63, 64, 65, 66, 67, 68, 69, 70, 71, 72,
       73, 73, 74, 75, 76, 77, 78, 79, 80, 81,
       82, 83, 84, 85, 85, 86, 87, 88, 89, 90,
       91, 92, 93, 94, 95, 95, 96, 97, 98, 99,
       100 >>

\* np.power(smoothed, 0.9): nan for a negative base
Power(x) == IF x < 0 THEN NaN ELSE PowTable[x + 1]

\* peak * 0.95
Decayed(p) == IF p = NaN THEN NaN ELSE (p * PeakDecay) \div 100

\* "if not self.peaks or self.value > self.peaks[-1][0]: append((value, 15))"
\* born is the number of the call that appended the entry (history only).
UpdatePeak(pk, v, n) ==
    IF pk = <<>> \/ Gt(v, pk[Len(pk)].peak)
    THEN Append(pk, [peak |-> v, frames |-> PeakFrames, born |-> n])
    ELSE pk

\* variant: the frame test off by one: an entry with no frames left is kept
KeepPeakOffByOne(e) == e.frames >= 0 /\ Gt(Decayed(e.peak), PeakFloor)

\* the per-entry test of the decay loop
KeepPeak(e) == e.frames > 0 /\ Gt(Decayed(e.peak), PeakFloor)

\* the per-entry step of the decay loop
DecayEntry(e) == [peak |-> Decayed(e.peak), frames |-> e.frames - 1, born |-> e.born]

RECURSIVE DecayPeaks(_)
DecayPeaks(pk) ==
    IF pk = <<>> THEN <<>>
    ELSE IF KeepPeak(Head(pk))
         THEN <<DecayEntry(Head(pk))>> \o DecayPeaks(Tail(pk))
         ELSE DecayPeaks(Tail(pk))

MeterIdle ==
    /\ value_buffer = <<>>
    /\ last_value = 0
    /\ value = 0
    /\ peaks = <<>>
    /\ samples = <<>>
    /\ feed = {}

MeterInit ==
    /\ value_buffer = <<>>
    /\ last_value = 0
    /\ value = 0
    /\ peaks = <<>>
    /\ samples = <<>>
    /\ feed \in Feeds

set_value(v) ==
    LET buf == DequeAppend(value_buffer, v)
        sm  == Smoothed(last_value, TargetValue(buf))
        val == Power(sm)
    IN  /\ Len(samples) < MaxCalls
        /\ value_buffer' = buf
        /\ last_value' = sm
        /\ value' = val
        /\ peaks' = DecayPeaks(UpdatePeak(peaks, val, Len(samples) + 1))
        /\ samples' = Append(samples, v)
        /\ UNCHANGED feed
        /\ UNCHANGED <<installVars, shortcutVars, matchVars>>

MeterNext == \E v \in feed : set_value(v)

\* the last k elements of a sequence (all of it when shorter)
LastK(s, k) == SubSeq(s, IF Len(s) > k THEN Len(s) - k + 1 ELSE 1, Len(s))

\* C6: every stored peak entry has a frame count in 0..14 that runs down by
\* one per call from 14, so an entry is present after at most 15 consecutive
\* calls; a stored peak is above 0.01; the list holds at most 15 entries.
C6_PeaksExpire ==
    /\ Len(peaks) <= 15
    /\ \A i \in 1..Len(peaks) :
          /\ peaks[i].frames \in 0..14
          /\ peaks[i].frames = 14 - (Len(samples) - peaks[i].born)
          /\ Len(samples) - peaks[i].born + 1 <= 15
          /\ Gt(peaks[i].peak, PeakFloor)

\* C6 witness: a full list of 15 entries whose oldest entry is in its last frame
C6_Witness == Len(peaks) = 15 /\ peaks[1].frames = 0 /\ peaks[15].frames = 14

\* C7: after n calls the buffer holds exactly the min(n, 3) most recent
\* samples in arrival order, and each call produces one new smoothed value,
\* computed from the three most recent samples of the history and the
\* previous smoothed value only.
C7_BufferIsRecentWindow ==
    /\ [](/\ Len(value_buffer) = Min(Len(samples), 3)
          /\ value_buffer = LastK(samples, 3))
    /\ [][/\ Len(samples') = Len(samples) + 1
          /\ last_value' = Smoothed(last_value, TargetValue(LastK(samples', 3)))
          /\ value' = Power(last_value')]_vars

\* C7 witness: the fourth-newest sample has been evicted and differs from
\* the oldest sample kept
C7_Witness ==
    /\ Len(samples) >= 5
    /\ value_buffer = <<0, 40, 40>>
    /\ samples[Len(samples) - 3] = 40

(***************************************************************************)
(* install.py                                                              *)
(***************************************************************************)

python_files ==
    {"main.py", "recorder.py", "transcriber.py", "settings.py",
     "progress_window.py", "processing_window.py", "settings_window.py",
     "loading_window.py", "shortcuts.py", "volume_meter.py",
     "clipboard_manager.py", "__init__.py"}

requirements_file == "requirements.txt"
desktop_file == "org.kde.telly_spelly.desktop"
icon_file == "telly-spelly.png"

AllDirs == {"app_dir", "bin_dir", "desktop_dir", "icon_dir"}

\* The files that may be missing from the source directory.
Optional == {"main.py", "shortcuts.py", requirements_file, desktop_file, icon_file}

SourceDirs ==
    {(python_files \cup {requirements_file, desktop_file, icon_file}) \ m :
        m \in SUBSET Optional}

InstallIdle ==
    /\ ipc = "idle"
    /\ have_whisper = FALSE /\ have_torch = FALSE
    /\ venv_ok = FALSE /\ pip_ok = FALSE
    /\ source_dir = {}
    /\ dirs = {} /\ app_dir = {} /\ venv = FALSE
    /\ launcher = "absent" /\ installed = {} /\ warnings = {}
    /\ result = "none"

InstallInit ==
    /\ ipc = "check_whisper"
    /\ have_whisper \in BOOLEAN /\ have_torch \in BOOLEAN
    /\ venv_ok \in BOOLEAN /\ pip_ok \in BOOLEAN
    /\ source_dir \in SourceDirs
    /\ dirs = {} /\ app_dir = {} /\ venv = FALSE
    /\ launcher = "absent" /\ installed = {} /\ warnings = {}
    /\ result = "none"

\* variant: the torch check reports success whatever the subprocess returns
check_system_torch_always == TRUE

check_system_whisper == have_whisper

check_system_torch == have_torch

\* subprocess.check_call of "python -m venv": CalledProcessError -> False
create_venv == venv_ok

\* subprocess.check_call of "pip install -r app_dir/requirements.txt":
\* pip exits non-zero when the file is not there
install_venv_requirements(files) == pip_ok /\ requirements_file \in files

Return(r) ==
    /\ result' = r
    /\ ipc' = "done"

CheckWhisper ==
    /\ ipc = "check_whisper"
    /\ IF check_system_whisper
         THEN ipc' = "check_torch" /\ UNCHANGED result
         ELSE Return("False")
    /\ UNCHANGED <<installEnv, dirs, app_dir, venv, launcher, installed, warnings>>
    /\ UNCHANGED <<meterVars, shortcutVars, matchVars>>

CheckTorch ==
    /\ ipc = "check_torch"
    /\ IF check_system_torch
         THEN ipc' = "mkdirs" /\ UNCHANGED result
         ELSE Return("False")
    /\ UNCHANGED <<installEnv, dirs, app_dir, venv, launcher, installed, warnings>>
    /\ UNCHANGED <<meterVars, shortcutVars, matchVars>>

MakeDirs ==
    /\ ipc = "mkdirs"
    /\ dirs' = AllDirs
    /\ ipc' = "copy_files"
    /\ UNCHANGED <<installEnv, app_dir, venv, launcher, installed, warnings, result>>
    /\ UNCHANGED <<meterVars, shortcutVars, matchVars>>

\* the loop over python_files, then requirements.txt (copied without warning)
CopyFiles ==
    /\ ipc = "copy_files"
    /\ app_dir' = (python_files \cup {requirements_file}) \cap source_dir
    /\ warnings' = warnings \cup (python_files \ source_dir)
    /\ ipc' = "create_venv"
    /\ UNCHANGED <<installEnv, dirs, venv, launcher, installed, result>>
    /\ UNCHANGED <<meterVars, shortcutVars, matchVars>>

CreateVenv ==
    /\ ipc = "create_venv"
    /\ IF create_venv
         THEN venv' = TRUE /\ ipc' = "install_requirements" /\ UNCHANGED result
         ELSE UNCHANGED venv /\ Return("False")
    /\ UNCHANGED <<installEnv, dirs, app_dir, launcher, installed, warnings>>
    /\ UNCHANGED <<meterVars, shortcutVars, matchVars>>

InstallRequirements ==
    /\ ipc = "install_requirements"
    /\ IF install_venv_requirements(app_dir)
         THEN ipc' = "write_launcher" /\ UNCHANGED result
         ELSE Return("False")
    /\ UNCHANGED <<installEnv, dirs, app_dir, venv, launcher, installed, warnings>>
    /\ UNCHANGED <<meterVars, shortcutVars, matchVars>>

WriteLauncher ==
    /\ ipc = "write_launcher"
    /\ launcher' = "written"
    /\ ipc' = "chmod"
    /\ UNCHANGED <<installEnv, dirs, app_dir, venv, installed, warnings, result>>
    /\ UNCHANGED <<meterVars, shortcutVars, matchVars>>

ChmodLauncher ==
    /\ ipc = "chmod"
    /\ launcher' = "executable"
    /\ ipc' = "desktop"
    /\ UNCHANGED <<installEnv, dirs, app_dir, venv, installed, warnings, result>>
    /\ UNCHANGED <<meterVars, shortcutVars, matchVars>>

CopyDesktop ==
    /\ ipc = "desktop"
    /\ IF desktop_file \in source_dir
         THEN installed' = installed \cup {desktop_file} /\ UNCHANGED warnings
         ELSE warnings' = warnings \cup {desktop_file} /\ UNCHANGED installed
    /\ ipc' = "icon"
    /\ UNCHANGED <<installEnv, dirs, app_dir, venv, launcher, result>>
    /\ UNCHANGED <<meterVars, shortcutVars, matchVars>>

CopyIcon ==
    /\ ipc = "icon"
    /\ IF icon_file \in source_dir
         THEN installed' = installed \cup {icon_file} /\ UNCHANGED warnings
         ELSE warnings' = warnings \cup {icon_file} /\ UNCHANGED installed
    /\ Return("True")
    /\ UNCHANGED <<installEnv, dirs, app_dir, venv, launcher>>
    /\ UNCHANGED <<meterVars, shortcutVars, matchVars>>

InstallNext ==
    \/ CheckWhisper
    \/ CheckTorch
    \/ MakeDirs
    \/ CopyFiles
    \/ CreateVenv
    \/ InstallRequirements
    \/ WriteLauncher
    \/ ChmodLauncher
    \/ CopyDesktop
    \/ CopyIcon

(***************************************************************************)
(* shortcuts.py                                                            *)
(***************************************************************************)

\* Listener objects that setup_shortcuts may create.
MaxListeners == 2
\* Work in flight: the unread events of a listener's devices plus the
\* notifications queued for the UI thread; no new event arrives beyond it.
MaxQueue == 1

KEY_LEFTCTRL == 29
KEY_RIGHTCTRL == 97
KEY_LEFTALT == 56
KEY_RIGHTALT == 100
KEY_LEFTSHIFT == 42
KEY_RIGHTSHIFT == 54
KEY_LEFTMETA == 125
KEY_RIGHTMETA == 126
EV_KEY == 1
EV_SYN == 0

KEY_LETTERS ==
    ("a" :> 30) @@ ("b" :> 48) @@ ("c" :> 46) @@ ("d" :> 32) @@ ("e" :> 18) @@
    ("f" :> 33) @@ ("g" :> 34) @@ ("h" :> 35) @@ ("i" :> 23) @@ ("j" :> 36) @@
    ("k" :> 37) @@ ("l" :> 38) @@ ("m" :> 50) @@ ("n" :> 49) @@ ("o" :> 24) @@
    ("p" :> 25) @@ ("q" :> 16) @@ ("r" :> 19) @@ ("s" :> 31) @@ ("t" :> 20) @@
    ("u" :> 22) @@ ("v" :> 47) @@ ("w" :> 17) @@ ("x" :> 45) @@ ("y" :> 21) @@
    ("z" :> 44)

Listeners == 1..MaxListeners
Names == {"start", "stop"}

\* The keyboards, in the order of evdev.list_devices(), with the keys used
\* on each: left ctrl, left alt and s on the first, left ctrl on the second.
KeysOn == << {KEY_LEFTCTRL, KEY_LEFTALT, 31}, {KEY_LEFTCTRL} >>
Keyboards == DOMAIN KeysOn

\* Combo strings, one character per element.
S_ctrl_alt == <<"c","t","r","l","+","a","l","t">>
S_Ctrl_Alt_S == <<"C","t","r","l"," ","+"," ","A","l","t"," ","+"," ","S">>
S_ctrl_alt_f1 == <<"c","t","r","l","+","a","l","t","+","f","1">>
S_ctrl_s == <<"c","t","r","l","+","s">>
S_alt_s == <<"a","l","t","+","s">>
S_f1 == <<"f","1">>

\* The (start, stop) arguments given to a listener.
ComboPairs ==
    { [start |-> S_ctrl_alt, stop |-> S_Ctrl_Alt_S],
      [start |-> S_ctrl_alt, stop |-> S_ctrl_alt_f1],
      [start |-> S_ctrl_s,   stop |-> S_alt_s],
      [start |-> S_f1,       stop |-> S_ctrl_alt] }

\* The arguments given to setup_shortcuts.
SetupPairs == { [start |-> S_ctrl_alt, stop |-> S_Ctrl_Alt_S] }

\* What importing evdev and opening the devices does.
DeviceStates == {"ok", "ImportError", "PermissionError", "OSError", "none"}

UpperCase == <<"A","B","C","D","E","F","G","H","I","J","K","L","M",
               "N","O","P","Q","R","S","T","U","V","W","X","Y","Z">>
LowerCase == <<"a","b","c","d","e","f","g","h","i","j","k","l","m",
               "n","o","p","q","r","s","t","u","v","w","x","y","z">>

\* str.lower(), one character
LowerChar(c) ==
    IF \E i \in DOMAIN UpperCase : UpperCase[i] = c
    THEN LowerCase[CHOOSE i \in DOMAIN UpperCase : UpperCase[i] = c]
    ELSE c

\* str.lower()
RECURSIVE Lower(_)
Lower(str) ==
    IF str = <<>> THEN <<>> ELSE <<LowerChar(Head(str))>> \o Lower(Tail(str))

\* str.replace(' ', '')
RECURSIVE RemoveSpaces(_)
RemoveSpaces(str) ==
    IF str = <<>> THEN <<>>
    ELSE IF Head(str) = " " THEN RemoveSpaces(Tail(str))
         ELSE <<Head(str)>> \o RemoveSpaces(Tail(str))

\* str.split('+'): cur is the part being read
RECURSIVE SplitFrom(_, _)
SplitFrom(str, cur) ==
    IF str = <<>> THEN <<cur>>
    ELSE IF Head(str) = "+" THEN <<cur>> \o SplitFrom(Tail(str), <<>>)
         ELSE SplitFrom(Tail(str), Append(cur, Head(str)))

Split(str) == SplitFrom(str, <<>>)

\* the group one part of a combo string stands for; no group for an
\* unrecognized part
PartGroups(part) ==
    IF part \in {<<"c","t","r","l">>, <<"c","o","n","t","r","o","l">>}
      THEN << {KEY_LEFTCTRL, KEY_RIGHTCTRL} >>
    ELSE IF part = <<"a","l","t">>
      THEN << {KEY_LEFTALT, KEY_RIGHTALT} >>
    ELSE IF part = <<"s","h","i","f","t">>
      THEN << {KEY_LEFTSHIFT, KEY_RIGHTSHIFT} >>
    ELSE IF part \in {<<"s","u","p","e","r">>, <<"m","e","t","a">>, <<"w","i","n">>}
      THEN << {KEY_LEFTMETA, KEY_RIGHTMETA} >>
    ELSE IF Len(part) = 1 /\ part[1] \in DOMAIN KEY_LETTERS
      THEN << {KEY_LETTERS[part[1]]} >>
    ELSE <<>>

RECURSIVE GroupsOf(_)
GroupsOf(parts) ==
    IF parts = <<>> THEN <<>>
    ELSE PartGroups(Head(parts)) \o GroupsOf(Tail(parts))

_parse_combo(combo_str) == GroupsOf(Split(RemoveSpaces(Lower(combo_str))))

\* _parse_combo of every combo string a listener is given
ParsedCombo ==
    [str \in {pair.start : pair \in ComboPairs} \cup {pair.stop : pair \in ComboPairs}
        |-> _parse_combo(str)]

\* variant: an empty list of groups matches
RECURSIVE _combo_matches_empty(_, _)
_combo_matches_empty(grps, pressed) ==
    IF grps = <<>> THEN TRUE
    ELSE IF Head(grps) \cap pressed = {} THEN FALSE
         ELSE _combo_matches_empty(Tail(grps), pressed)

\* the loop of _combo_matches: the first group without a pressed key ends it
RECURSIVE AllGroupsPressed(_, _)
AllGroupsPressed(grps, pressed) ==
    IF grps = <<>> THEN TRUE
    ELSE IF ~(\E code \in Head(grps) : code \in pressed) THEN FALSE
         ELSE AllGroupsPressed(Tail(grps), pressed)

_combo_matches(grps, pressed) ==
    IF grps = <<>> THEN FALSE ELSE AllGroupsPressed(grps, pressed)

\* Groups in a list given to _combo_matches.
MaxGroups == 3

\* the groups the lists are made of: ctrl, alt, the letter s, and a group
\* without keys
GroupChoices ==
    { {KEY_LEFTCTRL, KEY_RIGHTCTRL}, {KEY_LEFTALT, KEY_RIGHTALT}, {KEY_LETTERS["s"]}, {} }

\* the codes that may be pressed
MatchCodes == {KEY_LEFTCTRL, KEY_RIGHTCTRL, KEY_LEFTALT, KEY_LETTERS["s"], KEY_LETTERS["a"]}

MatchIdle ==
    /\ m_groups = <<>>
    /\ m_pressed = {}
    /\ m_result = "unset"
    /\ m_at = {}

MatchInit ==
    /\ m_groups \in UNION {[1..n -> GroupChoices] : n \in 0..MaxGroups}
    /\ m_pressed \in SUBSET MatchCodes
    /\ m_result = "unset"
    /\ m_at = {}

\* a call _combo_matches(m_groups, m_pressed)
CallComboMatches ==
    /\ m_result' = IF _combo_matches(m_groups, m_pressed) THEN "True" ELSE "False"
    /\ m_at' = m_pressed
    /\ UNCHANGED <<m_groups, m_pressed>>
    /\ UNCHANGED <<meterVars, installVars, shortcutVars>>

\* one more key goes down between two calls
PressAnother(code) ==
    /\ code \notin m_pressed
    /\ m_pressed' = m_pressed \cup {code}
    /\ UNCHANGED <<m_groups, m_result, m_at>>
    /\ UNCHANGED <<meterVars, installVars, shortcutVars>>

MatchNext ==
    \/ CallComboMatches
    \/ \E code \in MatchCodes : PressAnother(code)

\* variant: the stop combo is tested first
_check_combos_stop_first(g, pressed) ==
    IF _combo_matches(g.stop, pressed) THEN <<"stop">>
    ELSE IF _combo_matches(g.start, pressed) THEN <<"start">>
    ELSE <<>>

\* the names _check_combos emits, in order
_check_combos(g, pressed) ==
    IF _combo_matches(g.start, pressed) THEN <<"start">>
    ELSE IF _combo_matches(g.stop, pressed) THEN <<"stop">>
    ELSE <<>>

RECURSIVE UnionOf(_)
UnionOf(grps) == IF grps = <<>> THEN {} ELSE Head(grps) \cup UnionOf(Tail(grps))

Sat(n) == IF n >= 2 THEN 2 ELSE n

\* history: emissions per combo since the last release of one of its keys
NotifiedAfter(nt, g, ev, out) ==
    [n \in Names |->
        IF ev[3] = 0 /\ ev[2] \in UnionOf(g[n]) THEN 0
        ELSE IF out = <<n>> THEN Sat(nt[n] + 1)
        ELSE nt[n]]

\* _handle_key_event on st = [pressed, out, notified], preceded by the
\* event.type == EV_KEY test of run
_handle_key_event(st, g, ev) ==
    IF ev[1] # EV_KEY THEN st
    ELSE IF ev[3] = 1 THEN
        LET p == st.pressed \cup {ev[2]}
            o == _check_combos(g, p)
        IN  [pressed |-> p, out |-> st.out \o o,
             notified |-> NotifiedAfter(st.notified, g, ev, o)]
    ELSE IF ev[3] = 0 THEN
        [pressed |-> st.pressed \ {ev[2]}, out |-> st.out,
         notified |-> NotifiedAfter(st.notified, g, ev, <<>>)]
    ELSE st

\* "for event in dev.read()"
RECURSIVE HandleEvents(_, _, _)
HandleEvents(st, g, evs) ==
    IF evs = <<>> THEN st
    ELSE HandleEvents(_handle_key_event(st, g, Head(evs)), g, Tail(evs))

\* the except clauses of run: PermissionError is an OSError
Caught(exc) == exc \in {"ImportError", "PermissionError", "OSError"}

\* variant: the "if not keyboards: return" test is missing
RunSetupNoKeyboardTest(dev) ==
    IF dev \in {"ok", "none"} THEN [next |-> "loop", exc |-> "none"]
    ELSE [next |-> "done", exc |-> dev]

\* run up to the loop: where it goes and what it raises
RunSetup(dev) ==
    IF dev = "ok" THEN [next |-> "loop", exc |-> "none"]
    ELSE IF dev = "none" THEN [next |-> "done", exc |-> "none"]
    ELSE [next |-> "done", exc |-> dev]

\* variant: the loop does not test the flag
LoopConditionAlways(l) == TRUE

\* "while self._running"
LoopCondition(l) == running[l]

NoQueues == [kb \in Keyboards |-> <<>>]
NoNotified == [n \in Names |-> 0]
NoGroups == [start |-> <<>>, stop |-> <<>>]
NoCombo == [start |-> <<>>, stop |-> <<>>]

\* the devices a listener has open
Open(l) == lpc[l] \in {"loop", "read"}

UNCHANGED_Main == UNCHANGED <<devices, combo, triggered, listener, mpc, pending, stale>>

\* run, from its start to the loop
RunStart(l) ==
    /\ lpc[l] = "start"
    /\ LET r == RunSetup(devices)
       IN  /\ lpc' = [lpc EXCEPT ![l] = r.next]
           /\ escaped' = [escaped EXCEPT ![l] = r.exc # "none" /\ ~Caught(r.exc)]
           /\ groups' = [groups EXCEPT ![l] =
                 IF r.next = "loop"
                 THEN [start |-> ParsedCombo[combo[l].start],
                       stop |-> ParsedCombo[combo[l].stop]]
                 ELSE @]
    /\ faithful' = [faithful EXCEPT ![l] = \A kb \in Keyboards : held[kb] = {}]
    /\ UNCHANGED <<running, pressed_keys, queue, ready, emitted, notified>>
    /\ UNCHANGED <<held, ui_queue>>
    /\ UNCHANGED_Main
    /\ UNCHANGED <<meterVars, installVars, matchVars>>

RECURSIVE ReadyDevices(_, _)
ReadyDevices(q, kb) ==
    IF kb > Len(KeysOn) THEN <<>>
    ELSE (IF q[kb] # <<>> THEN <<kb>> ELSE <<>>) \o ReadyDevices(q, kb + 1)

\* the loop test and select(keyboards, [], [], 0.1); an empty result is the
\* timeout
LoopSelect(l) ==
    /\ lpc[l] = "loop"
    /\ IF LoopCondition(l)
         THEN LET r == ReadyDevices(queue[l], 1)
              IN  /\ ready' = [ready EXCEPT ![l] = r]
                  /\ lpc' = [lpc EXCEPT ![l] = IF r = <<>> THEN "loop" ELSE "read"]
                  /\ UNCHANGED queue
         ELSE /\ lpc' = [lpc EXCEPT ![l] = "done"]
              /\ queue' = [queue EXCEPT ![l] = NoQueues]
              /\ UNCHANGED ready
    /\ UNCHANGED <<running, pressed_keys, groups, escaped, emitted, notified, faithful>>
    /\ UNCHANGED <<held, ui_queue>>
    /\ UNCHANGED_Main
    /\ UNCHANGED <<meterVars, installVars, matchVars>>

RECURSIVE Tagged(_, _)
Tagged(l, out) ==
    IF out = <<>> THEN <<>> ELSE <<[from |-> l, name |-> Head(out)]>> \o Tagged(l, Tail(out))

AfterRead(l) ==
    /\ ready' = [ready EXCEPT ![l] = Tail(@)]
    /\ lpc' = [lpc EXCEPT ![l] = IF Tail(ready[l]) = <<>> THEN "loop" ELSE "read"]

\* one device of "for dev in r": dev.read() and the handling of its events
ReadDev(l) ==
    /\ lpc[l] = "read"
    /\ LET d  == Head(ready[l])
           st == HandleEvents([pressed |-> pressed_keys[l], out |-> <<>>,
                               notified |-> notified[l]], groups[l], queue[l][d])
       IN  /\ pressed_keys' = [pressed_keys EXCEPT ![l] = st.pressed]
           /\ notified' = [notified EXCEPT ![l] = st.notified]
           /\ emitted' = [emitted EXCEPT ![l] = @ \cup {st.out[i] : i \in DOMAIN st.out}]
           /\ ui_queue' = ui_queue \o Tagged(l, st.out)
           /\ queue' = [queue EXCEPT ![l][d] = <<>>]
    /\ AfterRead(l)
    /\ UNCHANGED <<running, groups, escaped, faithful>>
    /\ UNCHANGED held
    /\ UNCHANGED_Main
    /\ UNCHANGED <<meterVars, installVars, matchVars>>

\* dev.read() raises OSError: the events of the device are not handled
ReadFails(l) ==
    /\ lpc[l] = "read"
    /\ queue' = [queue EXCEPT ![l][Head(ready[l])] = <<>>]
    /\ faithful' = [faithful EXCEPT ![l] = FALSE]
    /\ AfterRead(l)
    /\ UNCHANGED <<running, pressed_keys, groups, escaped, emitted, notified>>
    /\ UNCHANGED <<held, ui_queue>>
    /\ UNCHANGED_Main
    /\ UNCHANGED <<meterVars, installVars, matchVars>>

\* KeyboardListener.stop
stop(l) ==
    /\ l = listener
    /\ mpc = "idle"
    /\ running' = [running EXCEPT ![l] = FALSE]
    /\ UNCHANGED <<lpc, pressed_keys, groups, queue, ready, escaped, emitted,
                   notified, faithful>>
    /\ UNCHANGED <<held, ui_queue>>
    /\ UNCHANGED_Main
    /\ UNCHANGED <<meterVars, installVars, matchVars>>

\* the number of unread events of the devices kb, kb + 1, ...
RECURSIVE Unread(_, _)
Unread(q, kb) == IF kb > Len(KeysOn) THEN 0 ELSE Len(q[kb]) + Unread(q, kb + 1)

\* the kernel queues an event of keyboard kb for every listener that has
\* the device open
Post(kb, ev) ==
    /\ \A l \in Listeners : Open(l) => Unread(queue[l], 1) + Len(ui_queue) < MaxQueue
    /\ queue' = [l \in Listeners |->
                    IF Open(l) THEN [queue[l] EXCEPT ![kb] = Append(@, ev)]
                    ELSE queue[l]]

UNCHANGED_Env ==
    /\ UNCHANGED <<lpc, running, pressed_keys, groups, ready, escaped, emitted,
                   notified, faithful>>
    /\ UNCHANGED ui_queue
    /\ UNCHANGED_Main
    /\ UNCHANGED <<meterVars, installVars, matchVars>>

KeyDown(kb, code) ==
    /\ code \in KeysOn[kb] \ held[kb]
    /\ held' = [held EXCEPT ![kb] = @ \cup {code}]
    /\ Post(kb, <<EV_KEY, code, 1>>)
    /\ UNCHANGED_Env

KeyUp(kb, code) ==
    /\ code \in held[kb]
    /\ held' = [held EXCEPT ![kb] = @ \ {code}]
    /\ Post(kb, <<EV_KEY, code, 0>>)
    /\ UNCHANGED_Env

KeyRepeat(kb, code) ==
    /\ code \in held[kb]
    /\ Post(kb, <<EV_KEY, code, 2>>)
    /\ UNCHANGED held
    /\ UNCHANGED_Env

\* an event that is not a key event
SynReport(kb) ==
    /\ Post(kb, <<EV_SYN, 0, 0>>)
    /\ UNCHANGED held
    /\ UNCHANGED_Env

\* the signal each name makes _on_combo emit
_on_combo(combo_name) ==
    IF combo_name = "start" THEN {"start_recording_triggered"}
    ELSE IF combo_name = "stop" THEN {"stop_recording_triggered"}
    ELSE {}

\* the UI thread's event loop delivers one queued notification to _on_combo
Deliver ==
    /\ mpc = "idle"
    /\ ui_queue # <<>>
    /\ ui_queue' = Tail(ui_queue)
    /\ triggered' = triggered \cup _on_combo(Head(ui_queue).name)
    /\ stale' = (stale \/ Head(ui_queue).from # listener)
    /\ UNCHANGED <<devices, held, combo, threadVars, listener, mpc, pending>>
    /\ UNCHANGED <<meterVars, installVars, matchVars>>

NextId == Cardinality({l \in Listeners : lpc[l] # "none"}) + 1

\* KeyboardListener(start_key, stop_key), connect, start
Create(pair) ==
    /\ listener' = NextId
    /\ combo' = [combo EXCEPT ![NextId] = pair]

\* setup_shortcuts up to the wait of remove_shortcuts, or all of it when
\* there is no listener
setup_shortcuts(pair) ==
    /\ mpc = "idle"
    /\ NextId <= MaxListeners
    /\ IF listener # 0
         THEN /\ running' = [running EXCEPT ![listener] = FALSE]
              /\ mpc' = "setup_wait"
              /\ pending' = pair
              /\ UNCHANGED <<listener, combo, lpc>>
         ELSE /\ Create(pair)
              /\ lpc' = [lpc EXCEPT ![NextId] = "start"]
              /\ UNCHANGED <<running, mpc, pending>>
    /\ UNCHANGED <<pressed_keys, groups, queue, ready, escaped, emitted,
                   notified, faithful>>
    /\ UNCHANGED <<devices, held, ui_queue, triggered, stale>>
    /\ UNCHANGED <<meterVars, installVars, matchVars>>

\* remove_shortcuts up to its wait
remove_shortcuts ==
    /\ mpc = "idle"
    /\ listener # 0
    /\ running' = [running EXCEPT ![listener] = FALSE]
    /\ mpc' = "remove_wait"
    /\ UNCHANGED <<lpc, pressed_keys, groups, queue, ready, escaped, emitted,
                   notified, faithful>>
    /\ UNCHANGED <<devices, held, combo, ui_queue, triggered, listener, pending, stale>>
    /\ UNCHANGED <<meterVars, installVars, matchVars>>

\* after wait(1000): "_listener = None", and the rest of setup_shortcuts
AfterWait ==
    /\ mpc' = "idle"
    /\ pending' = NoCombo
    /\ IF mpc = "setup_wait"
         THEN /\ Create(pending)
              /\ lpc' = [lpc EXCEPT ![NextId] = "start"]
         ELSE /\ listener' = 0
              /\ UNCHANGED <<combo, lpc>>
    /\ UNCHANGED <<running, pressed_keys, groups, queue, ready, escaped, emitted,
                   notified, faithful>>
    /\ UNCHANGED <<devices, held, ui_queue, triggered, stale>>
    /\ UNCHANGED <<meterVars, installVars, matchVars>>

\* wait(1000) returns because the thread has finished
WaitFinished ==
    /\ mpc \in {"setup_wait", "remove_wait"}
    /\ lpc[listener] = "done"
    /\ AfterWait

\* wait(1000) returns False: the thread has not finished within the second
WaitTimeout ==
    /\ mpc \in {"setup_wait", "remove_wait"}
    /\ lpc[listener] # "done"
    /\ AfterWait

ShortcutsIdle ==
    /\ devices = "ok"
    /\ held = [kb \in Keyboards |-> {}]
    /\ lpc = [l \in Listeners |-> "none"]
    /\ combo = [l \in Listeners |-> NoCombo]
    /\ running = [l \in Listeners |-> TRUE]
    /\ pressed_keys = [l \in Listeners |-> {}]
    /\ groups = [l \in Listeners |-> NoGroups]
    /\ queue = [l \in Listeners |-> NoQueues]
    /\ ready = [l \in Listeners |-> <<>>]
    /\ escaped = [l \in Listeners |-> FALSE]
    /\ emitted = [l \in Listeners |-> {}]
    /\ notified = [l \in Listeners |-> NoNotified]
    /\ faithful = [l \in Listeners |-> TRUE]
    /\ ui_queue = <<>>
    /\ triggered = {}
    /\ listener = 0
    /\ mpc = "idle"
    /\ pending = NoCombo
    /\ stale = FALSE

\* a GlobalShortcuts object before any call
ShortcutsInit ==
    /\ devices \in DeviceStates
    /\ held = [kb \in Keyboards |-> {}]
    /\ lpc = [l \in Listeners |-> "none"]
    /\ combo = [l \in Listeners |-> NoCombo]
    /\ running = [l \in Listeners |-> TRUE]
    /\ pressed_keys = [l \in Listeners |-> {}]
    /\ groups = [l \in Listeners |-> NoGroups]
    /\ queue = [l \in Listeners |-> NoQueues]
    /\ ready = [l \in Listeners |-> <<>>]
    /\ escaped = [l \in Listeners |-> FALSE]
    /\ emitted = [l \in Listeners |-> {}]
    /\ notified = [l \in Listeners |-> NoNotified]
    /\ faithful = [l \in Listeners |-> TRUE]
    /\ ui_queue = <<>>
    /\ triggered = {}
    /\ listener = 0
    /\ mpc = "idle"
    /\ pending = NoCombo
    /\ stale = FALSE

\* one listener, constructed and started by a first setup_shortcuts call
ListenerInit(pairs) ==
    /\ devices \in DeviceStates
    /\ held = [kb \in Keyboards |-> {}]
    /\ lpc = [l \in Listeners |-> IF l = 1 THEN "start" ELSE "none"]
    /\ \E pair \in pairs :
          combo = [l \in Listeners |-> IF l = 1 THEN pair ELSE NoCombo]
    /\ running = [l \in Listeners |-> TRUE]
    /\ pressed_keys = [l \in Listeners |-> {}]
    /\ groups = [l \in Listeners |-> NoGroups]
    /\ queue = [l \in Listeners |-> NoQueues]
    /\ ready = [l \in Listeners |-> <<>>]
    /\ escaped = [l \in Listeners |-> FALSE]
    /\ emitted = [l \in Listeners |-> {}]
    /\ notified = [l \in Listeners |-> NoNotified]
    /\ faithful = [l \in Listeners |-> TRUE]
    /\ ui_queue = <<>>
    /\ triggered = {}
    /\ listener = 1
    /\ mpc = "idle"
    /\ pending = NoCombo
    /\ stale = FALSE

ThreadStep(l) ==
    \/ RunStart(l)
    \/ LoopSelect(l)
    \/ ReadDev(l)
    \/ ReadFails(l)

KeyEvent ==
    \E kb \in Keyboards :
        \/ \E code \in KeysOn[kb] :
              \/ KeyDown(kb, code)
              \/ KeyUp(kb, code)
              \/ KeyRepeat(kb, code)
        \/ SynReport(kb)

ListenerNext ==
    \/ \E l \in Listeners : ThreadStep(l)
    \/ \E l \in Listeners : stop(l)
    \/ KeyEvent
    \/ Deliver

ShortcutsNext ==
    \/ \E l \in Listeners : ThreadStep(l)
    \/ \E pair \in SetupPairs : setup_shortcuts(pair)
    \/ remove_shortcuts
    \/ WaitFinished
    \/ WaitTimeout
    \/ KeyEvent
    \/ Deliver

(***************************************************************************)
(* Specifications                                                          *)
(***************************************************************************)

InitMeter == MeterInit /\ InstallIdle /\ ShortcutsIdle /\ MatchIdle

SpecMeter == InitMeter /\ [][MeterNext]_vars

InitInstall == InstallInit /\ MeterIdle /\ ShortcutsIdle /\ MatchIdle

SpecInstall == InitInstall /\ [][InstallNext]_vars

InitMatch == MatchInit /\ MeterIdle /\ InstallIdle /\ ShortcutsIdle

SpecMatch == InitMatch /\ [][MatchNext]_vars

InitListener == ListenerInit(ComboPairs) /\ MeterIdle /\ InstallIdle /\ MatchIdle

SpecListener == InitListener /\ [][ListenerNext]_vars

\* The listener with the default-shaped combos (the combos play no part in
\* how run ends).  select() times out after 0.1 s and the thread is
\* scheduled: every step of run that can be taken is taken.
InitFair ==
    /\ ListenerInit({[start |-> S_ctrl_alt, stop |-> S_Ctrl_Alt_S]})
    /\ MeterIdle /\ InstallIdle /\ MatchIdle

FairListener ==
    /\ InitFair
    /\ [][ListenerNext]_vars
    /\ WF_vars(\E l \in Listeners : ThreadStep(l))

InitShortcuts == ShortcutsInit /\ MeterIdle /\ InstallIdle /\ MatchIdle

SpecShortcuts == InitShortcuts /\ [][ShortcutsNext]_vars

(***************************************************************************)
(* shortcuts.py properties                                                 *)
(***************************************************************************)

Threads == {l \in Listeners : lpc[l] \in {"start", "loop", "read"}}

RECURSIVE CountFrom(_, _)
CountFrom(q, l) ==
    IF q = <<>> THEN 0
    ELSE (IF Head(q).from = l THEN 1 ELSE 0) + CountFrom(Tail(q), l)

RECURSIVE StopsFrom(_, _)
StopsFrom(q, l) ==
    IF q = <<>> THEN 0
    ELSE (IF Head(q) = [from |-> l, name |-> "stop"] THEN 1 ELSE 0)
            + StopsFrom(Tail(q), l)

RECURSIVE Presses(_)
Presses(evs) ==
    IF evs = <<>> THEN 0
    ELSE (IF Head(evs)[1] = EV_KEY /\ Head(evs)[3] = 1 THEN 1 ELSE 0) + Presses(Tail(evs))

\* C1: the value _combo_matches returned is true exactly when the list of
\* groups is non-empty and every group contains a pressed code; a call that
\* returned true returns true again for every superset of the pressed codes;
\* a call changes neither argument.
C1_ComboMatchesIsContainment ==
    /\ [](m_result # "unset" =>
            (m_result = "True" <=>
                /\ Len(m_groups) > 0
                /\ \A i \in 1..Len(m_groups) : m_groups[i] \cap m_at # {}))
    /\ [][/\ (m_result = "True" /\ m_at \subseteq m_at') => m_result' = "True"
          /\ m_result' # m_result => (m_groups' = m_groups /\ m_pressed' = m_pressed)
          /\ m_groups' = m_groups]_vars

\* C1 witness: a call that returned true for three groups although one of
\* the codes of a group is not pressed, after it returned false for fewer keys
C1_Witness ==
    /\ Len(m_groups) = 3
    /\ m_result = "True"
    /\ KEY_RIGHTCTRL \in m_at /\ KEY_LEFTCTRL \notin m_at
    /\ KEY_LETTERS["a"] \in m_at

\* C2: between the press that completes a combo and the release of one of
\* the combo's keys the combo is notified once, not twice.
C2_SingleNotification ==
    \A l \in Listeners : \A n \in Names : notified[l][n] <= 1

\* C3: when a listener that has seen every key transition has no unread
\* event, _pressed_keys is the set of the codes held down on the keyboards.
C3_PressedKeysAreHeldKeys ==
    \A l \in Listeners :
        (lpc[l] = "loop" /\ faithful[l] /\ queue[l] = NoQueues) =>
            pressed_keys[l] = UNION {held[kb] : kb \in Keyboards}

\* C4: when the devices cannot be used, run ends without entering the loop:
\* the thread is finished as soon as it has run, _pressed_keys is empty, no
\* notification was emitted or is queued, and no exception left run.
C4_UnavailableDevicesEndRun ==
    \A l \in Listeners :
        /\ ~escaped[l]
        /\ devices # "ok" =>
              /\ lpc[l] \in {"none", "start", "done"}
              /\ pressed_keys[l] = {}
              /\ emitted[l] = {}
              /\ CountFrom(ui_queue, l) = 0
              /\ queue[l] = NoQueues /\ ready[l] = <<>>

\* C4 witness: run has ended on a permission error while keys are held
C4_Witness ==
    /\ devices = "PermissionError"
    /\ lpc[1] = "done"
    /\ held[1] = KeysOn[1]

\* C5: once _running is false the thread finishes, and a finished thread
\* emits nothing and leaves _pressed_keys alone.
C5_StopEndsLoop ==
    /\ (\E l \in Listeners : ~running[l] /\ lpc[l] \notin {"none", "done"})
          ~> (\A l \in Listeners : ~running[l] => lpc[l] \in {"none", "done"})
    /\ [][\A l \in Listeners : lpc[l] = "done" =>
              /\ lpc'[l] = "done"
              /\ pressed_keys'[l] = pressed_keys[l]
              /\ emitted'[l] = emitted[l]
              /\ CountFrom(ui_queue', l) <= CountFrom(ui_queue, l)]_vars

\* C5 witness: the thread has left the loop on the flag with keys still held
\* and pressed keys recorded
C5_Witness ==
    /\ devices = "ok"
    /\ lpc[1] = "done" /\ ~running[1]
    /\ pressed_keys[1] # {}
    /\ held[1] # {}

\* C9 as stated: a stop combo whose groups include every group of the start
\* combo never produces a "stop" notification.
C9_StopIncludingStartNeverEmitted ==
    \A l \in Listeners :
        (/\ lpc[l] \in {"loop", "read", "done"} /\ devices = "ok"
         /\ \A i \in 1..Len(groups[l].start) :
               \E j \in 1..Len(groups[l].stop) : groups[l].stop[j] = groups[l].start[i])
        => "stop" \notin emitted[l]

\* C9 amended: the start combo has priority and a read emits at most one
\* notification per key press; a stop combo whose groups include every group
\* of a non-empty start combo never produces a "stop" notification.
C9_StartHasPriority ==
    /\ [](\A l \in Listeners :
            (/\ groups[l].start # <<>>
             /\ \A i \in 1..Len(groups[l].start) :
                   \E j \in 1..Len(groups[l].stop) :
                       groups[l].stop[j] = groups[l].start[i])
            => /\ "stop" \notin emitted[l]
               /\ \A k \in 1..Len(ui_queue) :
                     ui_queue[k].from = l => ui_queue[k].name = "start")
    /\ [][\A l \in Listeners :
            /\ lpc[l] = "read" =>
                 CountFrom(ui_queue', l)
                    <= CountFrom(ui_queue, l) + Presses(queue[l][Head(ready[l])])
            /\ lpc[l] # "read" => CountFrom(ui_queue', l) <= CountFrom(ui_queue, l)
            /\ (/\ lpc[l] = "read"
                /\ Len(queue[l][Head(ready[l])]) = 1
                /\ _combo_matches(groups[l].start, pressed_keys'[l])
                /\ _combo_matches(groups[l].stop, pressed_keys'[l]))
               => StopsFrom(ui_queue', l) <= StopsFrom(ui_queue, l)]_vars

\* C9 witness: every key of the stop combo ctrl+alt+s is pressed and the
\* listener has emitted "start" only
C9_Witness ==
    /\ Len(groups[1].stop) = 3
    /\ pressed_keys[1] = KeysOn[1]
    /\ _combo_matches(groups[1].stop, pressed_keys[1])
    /\ emitted[1] = {"start"}
    /\ "start_recording_triggered" \in triggered

\* C10: when setup_shortcuts or remove_shortcuts has returned, at most one
\* listener thread runs, every listener other than _listener has finished,
\* and no notification of a removed listener has reached _on_combo.
C10_AtMostOneListener ==
    mpc = "idle" =>
        /\ Cardinality(Threads) <= 1
        /\ \A l \in Listeners : l # listener => lpc[l] \in {"none", "done"}
        /\ ~stale

(***************************************************************************)
(* install.py properties                                                   *)
(***************************************************************************)

\* C8: a failed whisper or torch check returns False before any directory is
\* created or file copied; a failed venv creation or requirements install
\* returns False with no launcher written; True is returned only with the
\* launcher written and executable; the result is decided by the four steps
\* alone, a missing python file, desktop file or icon only adds a warning.
C8_AbortsBeforeLauncher ==
    /\ (ipc = "done" /\ ~(have_whisper /\ have_torch)) =>
          /\ result = "False"
          /\ dirs = {} /\ app_dir = {} /\ ~venv /\ installed = {}
    /\ (ipc = "done" /\ ~(venv_ok /\ pip_ok)) => result = "False"
    /\ result = "False" => launcher = "absent" /\ installed = {}
    /\ result = "True" => launcher = "executable" /\ dirs = AllDirs
    /\ ipc = "done" =>
          (result = "True" <=>
              /\ have_whisper /\ have_torch /\ venv_ok /\ pip_ok
              /\ requirements_file \in source_dir)
    /\ result = "True" =>
          warnings = (python_files \cup {desktop_file, icon_file}) \ source_dir

\* C8 witness: an installation that returned True although a python file,
\* the desktop file and the icon were missing
C8_Witness ==
    /\ result = "True"
    /\ {"main.py", desktop_file, icon_file} \subseteq warnings

====
